---------------------------- MODULE Spec2Model ----------------------------
(***************************************************************************)
(* CartPole-RL-Demo: the physics stepper (updatePhysics), the state        *)
(* initializer (getInitialState) and the Simulation component that drives  *)
(* them once per animation frame.                                          *)
(*                                                                         *)
(* Numbers.  The program computes in IEEE-754 doubles.  The model computes *)
(* in fixed point: a number v of the program is the integer v * Scale,     *)
(* and every product and quotient is rounded toward zero, which keeps the  *)
(* sign symmetry of IEEE rounding (round(-v) = -round(v)).  Math.sin and   *)
(* Math.cos are their Taylor polynomials evaluated in that arithmetic.     *)
(* One unit of the fixed-point grid plays the part of one ULP.  Infinity,  *)
(* -Infinity and NaN are three values outside the grid, and the operations *)
(* treat them as IEEE-754 does; the grid has one zero, and a division by   *)
(* it takes the sign of the dividend.                                      *)
(***************************************************************************)
EXTENDS Integers, Sequences, FiniteSets, TLC

VARIABLES
  \* the Simulation component and the App state it is rendered from
  physicsState,    \* physicsStateRef.current
  history,         \* historyRef.current
  currentAction,   \* currentActionRef.current
  frames,          \* the animation frames requested and not yet run or
                   \* cancelled: the tick each will run, and whether
                   \* requestRef.current holds its id
  isRunning,       \* useState(false)
  score,           \* useState(0)
  highScore,       \* useState(0)
  terminationMsg,  \* useState(null)
  appConfig,       \* App: useState(DEFAULT_CONFIG), passed as the prop config
  appHistory,      \* App: useState([]), set by onHistoryUpdate
  appHistoryShared,\* App's history is the very array historyRef.current holds
  lastArrowKey,    \* the last ArrowLeft / ArrowRight keydown event since
                   \* mount ("none" before the first)
  episodeConfigs,  \* the configs tick has passed to updatePhysics since
                   \* physicsStateRef.current was last set to a fresh state
  \* a sequence of updatePhysics calls threaded on one state (the stepper
  \* called as a library function, with nothing between the calls)
  hConfig,    \* the config passed to every call
  hStart,     \* the state the sequence starts from
  hState,     \* the state returned by the last call (hStart before any)
  hInput,     \* the state passed to the last call
  hActions,   \* the actions passed so far, in order
  hMirror,    \* the same sequence from the negated start, opposite actions
  hAlt,       \* the last call repeated with the other action and other
              \* gravity, masses and force magnitude
  hArgs,      \* the argument objects of the last call as they are after it
  hDraws      \* the values Math.random() returned to the getInitialState
              \* call that made hStart (empty when hStart was not made so)

cvars == <<physicsState, history, currentAction, frames, isRunning, score,
           highScore, terminationMsg, appConfig, appHistory, appHistoryShared,
           episodeConfigs, lastArrowKey>>
hvars == <<hConfig, hStart, hState, hInput, hActions, hMirror, hAlt, hArgs,
          hDraws>>
vars == <<cvars, hvars>>

(***************************************************************************)
(* Fixed-point arithmetic                                                  *)
(***************************************************************************)
Scale == 10 * 10 * 10

Abs(a) == IF a < 0 THEN -a ELSE a

\* a / b on integers, rounded toward zero
TDiv(a, b) ==
  IF (a < 0) = (b < 0) THEN Abs(a) \div Abs(b) ELSE -(Abs(a) \div Abs(b))

\* Infinity and NaN: beyond every number of the grid
Infinity == Scale * Scale * Scale
NaN == 2 * Infinity

IsFinite(a) == -Infinity < a /\ a < Infinity

\* the product or quotient of two signs as an infinity
SignedInfinity(a, b) == IF (a < 0) = (b < 0) THEN Infinity ELSE -Infinity

\* the program's -a
FNeg(a) == IF a = NaN THEN NaN ELSE -a

\* the program's a + b
FAdd(a, b) ==
  IF a = NaN \/ b = NaN THEN NaN
  ELSE IF IsFinite(a) /\ IsFinite(b) THEN a + b
  ELSE IF IsFinite(b) THEN a
  ELSE IF IsFinite(a) THEN b
  ELSE IF a = b THEN a
  ELSE NaN

\* the program's a - b
FSub(a, b) == FAdd(a, FNeg(b))

\* the program's a * b
FMul(a, b) ==
  IF a = NaN \/ b = NaN THEN NaN
  ELSE IF IsFinite(a) /\ IsFinite(b) THEN TDiv(a * b, Scale)
  ELSE IF a = 0 \/ b = 0 THEN NaN
  ELSE SignedInfinity(a, b)

\* the program's a / b
FDiv(a, b) ==
  IF a = NaN \/ b = NaN THEN NaN
  ELSE IF IsFinite(a) /\ IsFinite(b)
    THEN IF b # 0 THEN TDiv(a * Scale, b)
         ELSE IF a = 0 THEN NaN
         ELSE SignedInfinity(a, b)
  ELSE IF IsFinite(a) THEN 0
  ELSE IF IsFinite(b) THEN SignedInfinity(a, b)
  ELSE NaN

\* the program's a < b and a > b: false when either is NaN
Lt(a, b) == a # NaN /\ b # NaN /\ a < b
Gt(a, b) == a # NaN /\ b # NaN /\ a > b

\* a literal whole number n of the program text
Lit(n) == n * Scale

\* Math.PI
PI == 3142

\* Math.sin(t): t - t^3/3! + t^5/5! - t^7/7!
MathSin(t) ==
  LET t2 == FMul(t, t)
      t3 == FMul(t2, t)
      t5 == FMul(t3, t2)
      t7 == FMul(t5, t2)
  IN  IF ~IsFinite(t) THEN NaN
      ELSE t - TDiv(t3, 6) + TDiv(t5, 120) - TDiv(t7, 5040)

\* Math.cos(t): 1 - t^2/2! + t^4/4! - t^6/6!
MathCos(t) ==
  LET t2 == FMul(t, t)
      t4 == FMul(t2, t2)
      t6 == FMul(t4, t2)
  IN  IF ~IsFinite(t) THEN NaN
      ELSE Scale - TDiv(t2, 2) + TDiv(t4, 24) - TDiv(t6, 720)

(***************************************************************************)
(* types: Action, SimulationState, SimulationConfig                        *)
(***************************************************************************)
LEFT == 0
RIGHT == 1
Action == {LEFT, RIGHT}

TerminatedCodes ==
  {"running", "pole_fell", "out_of_bounds", "max_steps", "manual_stop"}

SimulationState(x, xDot, theta, thetaDot, done, steps, terminatedCode) ==
  [x |-> x, xDot |-> xDot, theta |-> theta, thetaDot |-> thetaDot,
   done |-> done, steps |-> steps, terminatedCode |-> terminatedCode]

SimulationConfig(gravity, cartMass, poleMass, poleLength, forceMag, tau, maxSteps, xThreshold, thetaThresholdDegrees) ==
  [gravity |-> gravity, cartMass |-> cartMass, poleMass |-> poleMass,
   poleLength |-> poleLength, forceMag |-> forceMag, tau |-> tau,
   maxSteps |-> maxSteps, xThreshold |-> xThreshold,
   thetaThresholdDegrees |-> thetaThresholdDegrees]

\* DEFAULT_CONFIG
DEFAULT_CONFIG ==
  SimulationConfig(9800, 1000, 100, 1000, 10000, 15, 1000, 2400, 24000)

\* the all-zero start state of the end-to-end scenario
ZeroState == SimulationState(0, 0, 0, 0, FALSE, 0, "running")

(***************************************************************************)
(* updatePhysics, piece by piece                                           *)
(***************************************************************************)
\* mutant: the sign of the force is swapped
force_Reversed(action, forceMag) ==
  IF action = RIGHT THEN FNeg(forceMag) ELSE forceMag

\* mutant: the force ignores the action
force_IgnoresAction(action, forceMag) == forceMag

\* const force = action === Action.RIGHT ? forceMag : -forceMag
force(action, forceMag) ==
  IF action = RIGHT THEN forceMag ELSE FNeg(forceMag)

\* temp, thetaAcc and xAcc of one call
accelerations(state, action, config) ==
  LET totalMass == FAdd(config.cartMass, config.poleMass)
      poleMassLength == FMul(config.poleMass, config.poleLength)
      costheta == MathCos(state.theta)
      sintheta == MathSin(state.theta)
      temp ==
        FDiv(FAdd(force(action, config.forceMag),
                  FMul(FMul(FMul(poleMassLength, state.thetaDot),
                            state.thetaDot), sintheta)),
             totalMass)
      thetaAcc ==
        FDiv(FSub(FMul(config.gravity, sintheta), FMul(costheta, temp)),
             FMul(config.poleLength,
                  FSub(FDiv(Lit(4), Lit(3)),
                       FDiv(FMul(FMul(config.poleMass, costheta), costheta),
                            totalMass))))
      xAcc ==
        FSub(temp,
             FDiv(FMul(FMul(poleMassLength, thetaAcc), costheta), totalMass))
  IN  [thetaAcc |-> thetaAcc, xAcc |-> xAcc]

\* Euler integration of one quantity: q + tau * qDot
integrate(q, tau, qDot) == FAdd(q, FMul(tau, qDot))

\* mutant: positions integrate the newly integrated velocities
nextPosition_NewVelocity(state, acc, config) ==
  [x |-> integrate(state.x, config.tau,
                   integrate(state.xDot, config.tau, acc.xAcc)),
   theta |-> integrate(state.theta, config.tau,
                       integrate(state.thetaDot, config.tau, acc.thetaAcc))]

\* const nextX = x + tau * xDot; const nextTheta = theta + tau * thetaDot
nextPosition(state, acc, config) ==
  [x |-> integrate(state.x, config.tau, state.xDot),
   theta |-> integrate(state.theta, config.tau, state.thetaDot)]

\* const nextXDot = xDot + tau * xAcc; const nextThetaDot = thetaDot + tau * thetaAcc
nextVelocity(state, acc, config) ==
  [xDot |-> integrate(state.xDot, config.tau, acc.xAcc),
   thetaDot |-> integrate(state.thetaDot, config.tau, acc.thetaAcc)]

\* const thetaThresholdRad = (thetaThresholdDegrees * Math.PI) / 180
thetaThresholdRad(thetaThresholdDegrees) ==
  FDiv(FMul(thetaThresholdDegrees, PI), Lit(180))

\* mutant: the counter is not advanced
nextSteps_Unchanged(steps) == steps

\* const nextSteps = steps + 1
nextSteps(steps) == steps + 1

\* mutant: the angle is checked before the position
terminatedCode_AngleFirst(nextX, nextTheta, steps, config) ==
  IF Lt(nextTheta, FNeg(thetaThresholdRad(config.thetaThresholdDegrees)))
       \/ Gt(nextTheta, thetaThresholdRad(config.thetaThresholdDegrees))
    THEN "pole_fell"
  ELSE IF Lt(nextX, FNeg(config.xThreshold)) \/ Gt(nextX, config.xThreshold)
    THEN "out_of_bounds"
  ELSE IF steps >= config.maxSteps
    THEN "max_steps"
  ELSE "running"

\* mutant: the threshold comparisons are not strict
terminatedCode_NonStrict(nextX, nextTheta, steps, config) ==
  IF Lt(nextX, FNeg(config.xThreshold)) \/ nextX = FNeg(config.xThreshold)
       \/ Gt(nextX, config.xThreshold) \/ nextX = config.xThreshold
    THEN "out_of_bounds"
  ELSE IF Lt(nextTheta, FNeg(thetaThresholdRad(config.thetaThresholdDegrees)))
            \/ nextTheta = FNeg(thetaThresholdRad(config.thetaThresholdDegrees))
            \/ Gt(nextTheta, thetaThresholdRad(config.thetaThresholdDegrees))
            \/ nextTheta = thetaThresholdRad(config.thetaThresholdDegrees)
    THEN "pole_fell"
  ELSE IF steps >= config.maxSteps
    THEN "max_steps"
  ELSE "running"

\* mutant: the step budget is compared with === instead of >=
terminatedCode_BudgetExact(nextX, nextTheta, steps, config) ==
  IF Lt(nextX, FNeg(config.xThreshold)) \/ Gt(nextX, config.xThreshold)
    THEN "out_of_bounds"
  ELSE IF Lt(nextTheta, FNeg(thetaThresholdRad(config.thetaThresholdDegrees)))
            \/ Gt(nextTheta, thetaThresholdRad(config.thetaThresholdDegrees))
    THEN "pole_fell"
  ELSE IF steps = config.maxSteps
    THEN "max_steps"
  ELSE "running"

\* mutant: the range checks are written as the negation of "inside"
\* (!(nextX >= -xThreshold && nextX <= xThreshold)), which is true of NaN
terminatedCode_NotInside(nextX, nextTheta, steps, config) ==
  IF ~(~Lt(nextX, FNeg(config.xThreshold)) /\ ~Gt(nextX, config.xThreshold)
       /\ nextX # NaN)
    THEN "out_of_bounds"
  ELSE IF ~(~Lt(nextTheta, FNeg(thetaThresholdRad(config.thetaThresholdDegrees)))
            /\ ~Gt(nextTheta, thetaThresholdRad(config.thetaThresholdDegrees))
            /\ nextTheta # NaN)
    THEN "pole_fell"
  ELSE IF steps >= config.maxSteps
    THEN "max_steps"
  ELSE "running"

\* mutant: the step budget is not checked
terminatedCode_NoBudget(nextX, nextTheta, steps, config) ==
  IF Lt(nextX, FNeg(config.xThreshold)) \/ Gt(nextX, config.xThreshold)
    THEN "out_of_bounds"
  ELSE IF Lt(nextTheta, FNeg(thetaThresholdRad(config.thetaThresholdDegrees)))
            \/ Gt(nextTheta, thetaThresholdRad(config.thetaThresholdDegrees))
    THEN "pole_fell"
  ELSE "running"

\* the if / else if chain that sets terminatedCode
terminatedCode(nextX, nextTheta, steps, config) ==
  IF Lt(nextX, FNeg(config.xThreshold)) \/ Gt(nextX, config.xThreshold)
    THEN "out_of_bounds"
  ELSE IF Lt(nextTheta, FNeg(thetaThresholdRad(config.thetaThresholdDegrees)))
            \/ Gt(nextTheta, thetaThresholdRad(config.thetaThresholdDegrees))
    THEN "pole_fell"
  ELSE IF steps >= config.maxSteps
    THEN "max_steps"
  ELSE "running"

\* mutant: the step-budget branch sets the code but not done
doneFlag_NotForBudget(code) == code \in {"out_of_bounds", "pole_fell"}

\* let done = false, set to true in each branch that sets a code
doneFlag(code) == code \in {"out_of_bounds", "pole_fell", "max_steps"}

\* the accelerations are computed, then the state is integrated with them
\* and tested against the thresholds and the step budget
updatePhysics(state, action, config) ==
  LET Integrated(acc) ==
        LET pos == nextPosition(state, acc, config)
            vel == nextVelocity(state, acc, config)
            n == nextSteps(state.steps)
            code == terminatedCode(pos.x, pos.theta, n, config)
        IN  SimulationState(pos.x, vel.xDot, pos.theta, vel.thetaDot,
                            doneFlag(code), n, code)
  IN  CHOOSE next \in
        {Integrated(acc) : acc \in {accelerations(state, action, config)}} :
        TRUE

\* mutant: the state passed is advanced in place and returned
updatePhysicsWrites_InPlace(state, action, config) ==
  [state |-> updatePhysics(state, action, config), config |-> config,
   returnsArgument |-> TRUE]

\* what a call leaves of the objects passed to it: state and config are
\* only read (destructured), no field of either is assigned, and the value
\* returned is an object literal
updatePhysicsWrites(state, action, config) ==
  [state |-> state, config |-> config, returnsArgument |-> FALSE]

(***************************************************************************)
(* getInitialState                                                         *)
(***************************************************************************)
\* mutant: the draw is scaled but not shifted
rand_NotShifted(r) == FMul(r, 100)

\* const rand = () => Math.random() * 0.1 - 0.05, for a draw r of Math.random()
rand(r) == FMul(r, 100) - 50

\* the state built from four draws of Math.random()
getInitialState(r1, r2, r3, r4) ==
  SimulationState(rand(r1), rand(r2), rand(r3), rand(r4), FALSE, 0, "running")

(***************************************************************************)
(* The Simulation component.                                               *)
(*                                                                         *)
(* Each action is one event handler or one animation-frame callback, run   *)
(* to completion together with the re-render React makes for the state     *)
(* updates it queued and the effects of that render: React applies them    *)
(* before the next event or frame is handled.  draw() and the              *)
(* setTimeout(draw, 0) of handleReset only read state and paint the canvas.*)
(***************************************************************************)
\* the most ticks of one episode the model follows
MaxTicks == 3

\* terminationMsg === null
NoMsg == "null"

\* a appConfig whose thresholds and step budget are scaled down, so that every
\* termination reason is reached within MaxTicks ticks of a fresh state
TightConfig ==
  SimulationConfig(9800, 1000, 100, 1000, 10000, 50, 3, 50, 3000)

\* the configs the App passes to the component
SimConfigs == {DEFAULT_CONFIG, TightConfig}

\* the four draws of Math.random() behind the component's fresh states:
\* one near the angle threshold of TightConfig, one near its track limit
SimDraws == {<<500, 500, 999, 999>>, <<999, 999, 500, 0>>}

\* mutant: highScore is missing from the deps of tick, which keeps the
\* high score of the mount
TickOf_MountHighScore(running, cfg, high) ==
  [isRunning |-> running, config |-> cfg, highScore |-> 0]

\* the tick created by a render: it closes over isRunning, appConfig and
\* highScore (and onHistoryUpdate, which always sets the App's history)
TickOf(running, cfg, high) ==
  [isRunning |-> running, config |-> cfg, highScore |-> high]

\* requestRef.current = requestAnimationFrame(tick)
requestAnimationFrame(fr, callback) ==
  {[g EXCEPT !.current = FALSE] : g \in fr}
    \cup {[callback |-> callback, current |-> TRUE]}

\* mutant: cancelAnimationFrame cancels nothing
cancelAnimationFrame_Nothing(fr) == fr

\* if (requestRef.current) cancelAnimationFrame(requestRef.current)
cancelAnimationFrame(fr) == {g \in fr : ~g.current}

\* mutant: the effect has no cleanup and cancels nothing when not running,
\* leaving it to the tick's own if (!isRunning) return
loopEffect_NoCancel(fr, depsChanged, running, callback) ==
  IF ~depsChanged THEN fr
  ELSE IF running THEN requestAnimationFrame(fr, callback)
  ELSE fr

\* the game-loop effect, deps [isRunning, tick], after a render: when a dep
\* changed, the cleanup of the previous run cancels the frame requestRef
\* holds, and the new run requests a frame if isRunning, cancels otherwise
loopEffect(fr, depsChanged, running, callback) ==
  IF ~depsChanged THEN fr
  ELSE IF running
    THEN requestAnimationFrame(cancelAnimationFrame(fr), callback)
  ELSE cancelAnimationFrame(cancelAnimationFrame(fr))

\* mutant: the entry carries the step counter of the state passed in
StepHistory_StepBefore(state, action) ==
  [step |-> state.steps - 1, x |-> state.x, theta |-> state.theta,
   action |-> IF action = LEFT THEN -1 ELSE 1]

\* the StepHistory entry pushed for a returned state
StepHistory(state, action) ==
  [step |-> state.steps, x |-> state.x, theta |-> state.theta,
   action |-> IF action = LEFT THEN -1 ELSE 1]

\* the message set for a termination code
messageFor(code) ==
  CASE code = "pole_fell" -> "Failed: Pole tilted too far!"
    [] code = "out_of_bounds" -> "Failed: Cart went off track!"
    [] code = "max_steps" -> "Success: Maximum steps reached!"
    [] OTHER -> "Game Over"

\* mutant: handleStart does not replace a done state
handleStart_KeepsDoneState(r) ==
  /\ isRunning' = TRUE
  /\ frames' = loopEffect(frames, ~isRunning, TRUE,
                          TickOf(TRUE, appConfig, highScore))
  /\ UNCHANGED <<physicsState, history, score, terminationMsg,
                 appHistoryShared, highScore, appConfig, appHistory,
                 episodeConfigs>>

\* mutant: handleStart empties the history array in place
\* (historyRef.current.length = 0) instead of replacing it
handleStart_ClearsInPlace(r) ==
  /\ IF physicsState.done
       THEN /\ physicsState' = getInitialState(r[1], r[2], r[3], r[4])
            /\ history' = <<>>
            /\ score' = 0
            /\ terminationMsg' = NoMsg
            /\ appHistory' = IF appHistoryShared THEN <<>> ELSE appHistory
            /\ episodeConfigs' = {}
       ELSE UNCHANGED <<physicsState, history, score, terminationMsg,
                        appHistory, episodeConfigs>>
  /\ isRunning' = TRUE
  /\ frames' = loopEffect(frames, ~isRunning, TRUE,
                          TickOf(TRUE, appConfig, highScore))
  /\ UNCHANGED <<highScore, appConfig, appHistoryShared>>

\* mutant: handleStart replaces the state whether it is done or not
handleStart_AlwaysRestarts(r) ==
  /\ physicsState' = getInitialState(r[1], r[2], r[3], r[4])
  /\ history' = <<>>
  /\ score' = 0
  /\ terminationMsg' = NoMsg
  /\ appHistoryShared' = FALSE
  /\ episodeConfigs' = {}
  /\ isRunning' = TRUE
  /\ frames' = loopEffect(frames, ~isRunning, TRUE,
                          TickOf(TRUE, appConfig, highScore))
  /\ UNCHANGED <<highScore, appConfig, appHistory>>

\* handleStart, called while not running, with the draws r of Math.random()
\* getInitialState would make
handleStart(r) ==
  /\ IF physicsState.done
       THEN /\ physicsState' = getInitialState(r[1], r[2], r[3], r[4])
            /\ history' = <<>>
            /\ score' = 0
            /\ terminationMsg' = NoMsg
            /\ appHistoryShared' = FALSE
            /\ episodeConfigs' = {}
       ELSE UNCHANGED <<physicsState, history, score, terminationMsg,
                        appHistoryShared, episodeConfigs>>
  /\ isRunning' = TRUE
  /\ frames' = loopEffect(frames, ~isRunning, TRUE,
                          TickOf(TRUE, appConfig, highScore))
  /\ UNCHANGED <<highScore, appConfig, appHistory>>

\* the Resume button, rendered when !isRunning && score > 0 && !terminationMsg
ClickResume ==
  /\ ~isRunning /\ score > 0 /\ terminationMsg = NoMsg
  /\ \E r \in SimDraws : handleStart(r)
  /\ UNCHANGED <<currentAction, lastArrowKey>>

\* mutant: pausing marks the state as stopped by hand
handlePause_ManualStop ==
  /\ isRunning
  /\ isRunning' = FALSE
  /\ physicsState' = [physicsState EXCEPT !.done = TRUE,
                                          !.terminatedCode = "manual_stop"]
  /\ frames' = loopEffect(frames, TRUE, FALSE,
                          TickOf(FALSE, appConfig, highScore))
  /\ UNCHANGED <<history, currentAction, lastArrowKey, score, highScore,
                 terminationMsg, appConfig, appHistory, appHistoryShared,
                 episodeConfigs>>

\* the Pause button, rendered when isRunning: handlePause
handlePause ==
  /\ isRunning
  /\ isRunning' = FALSE
  /\ frames' = loopEffect(frames, TRUE, FALSE,
                          TickOf(FALSE, appConfig, highScore))
  /\ UNCHANGED <<physicsState, history, currentAction, lastArrowKey, score,
                 highScore,
                 terminationMsg, appConfig, appHistory, appHistoryShared,
                 episodeConfigs>>

\* mutant: Reset leaves the termination message
handleReset_KeepsMessage ==
  /\ \E r \in SimDraws :
       physicsState' = getInitialState(r[1], r[2], r[3], r[4])
  /\ history' = <<>>
  /\ score' = 0
  /\ isRunning' = FALSE
  /\ appHistoryShared' = FALSE
  /\ episodeConfigs' = {}
  /\ frames' = loopEffect(frames, isRunning, FALSE,
                          TickOf(FALSE, appConfig, highScore))
  /\ UNCHANGED <<currentAction, lastArrowKey, highScore, appConfig, appHistory,
                 terminationMsg>>

\* the Reset button, always rendered: handleReset
handleReset ==
  /\ \E r \in SimDraws :
       physicsState' = getInitialState(r[1], r[2], r[3], r[4])
  /\ history' = <<>>
  /\ score' = 0
  /\ terminationMsg' = NoMsg
  /\ isRunning' = FALSE
  /\ appHistoryShared' = FALSE
  /\ episodeConfigs' = {}
  /\ frames' = loopEffect(frames, isRunning, FALSE,
                          TickOf(FALSE, appConfig, highScore))
  /\ UNCHANGED <<currentAction, lastArrowKey, highScore, appConfig,
                 appHistory>>

\* mutant: the arrow keys select the opposite actions
handleKeyDown_Swapped(key) ==
  /\ key \in {"ArrowLeft", "ArrowRight"}
  /\ currentAction' = IF key = "ArrowLeft" THEN RIGHT ELSE LEFT
  /\ lastArrowKey' = key
  /\ IF ~isRunning
       THEN \E r \in SimDraws : handleStart(r)
       ELSE UNCHANGED <<physicsState, history, frames, isRunning, score,
                        highScore, terminationMsg, appConfig, appHistory,
                        appHistoryShared, episodeConfigs>>

\* the keydown listener, for an arrow key
handleKeyDown(key) ==
  /\ key \in {"ArrowLeft", "ArrowRight"}
  /\ currentAction' = IF key = "ArrowLeft" THEN LEFT ELSE RIGHT
  /\ lastArrowKey' = key
  /\ IF ~isRunning
       THEN \E r \in SimDraws : handleStart(r)
       ELSE UNCHANGED <<physicsState, history, frames, isRunning, score,
                        highScore, terminationMsg, appConfig, appHistory,
                        appHistoryShared, episodeConfigs>>

\* the keydown listener, for any other key
handleOtherKey == UNCHANGED cvars

\* a slider of the ConfigPanel: App.handleConfigChange, which re-renders
\* the App and so re-creates onHistoryUpdate and tick
handleConfigChange(newConfig) ==
  /\ newConfig # appConfig
  /\ appConfig' = newConfig
  /\ frames' = loopEffect(frames, TRUE, isRunning,
                          TickOf(isRunning, newConfig, highScore))
  /\ UNCHANGED <<physicsState, history, currentAction, lastArrowKey,
                 isRunning, score,
                 highScore, terminationMsg, appHistory, appHistoryShared,
                 episodeConfigs>>

\* an animation frame runs its tick
tick(f) ==
  /\ f \in frames
  /\ physicsState.steps < MaxTicks
  /\ IF ~f.callback.isRunning
       THEN /\ frames' = frames \ {f}
            /\ UNCHANGED <<physicsState, history, isRunning, score,
                           highScore, terminationMsg, appHistory,
                           appHistoryShared, episodeConfigs>>
       ELSE /\ physicsState' =
                 updatePhysics(physicsState, currentAction, f.callback.config)
            /\ history' =
                 Append(history, StepHistory(physicsState', currentAction))
            /\ score' = physicsState'.steps
            /\ episodeConfigs' = episodeConfigs \cup {f.callback.config}
            /\ IF physicsState'.done
                 THEN /\ isRunning' = FALSE
                      /\ highScore' =
                           IF physicsState'.steps > f.callback.highScore
                             THEN physicsState'.steps ELSE highScore
                      /\ appHistory' = history'
                      /\ appHistoryShared' = TRUE
                      /\ terminationMsg' =
                           messageFor(physicsState'.terminatedCode)
                      /\ frames' =
                           loopEffect(frames \ {f}, TRUE, FALSE,
                                      TickOf(FALSE, appConfig, highScore'))
                 ELSE /\ frames' =
                           requestAnimationFrame(frames \ {f}, f.callback)
                      /\ appHistory' =
                           IF appHistoryShared THEN history' ELSE appHistory
                      /\ UNCHANGED <<isRunning, highScore, terminationMsg,
                                     appHistoryShared>>
  /\ UNCHANGED <<currentAction, lastArrowKey, appConfig>>

\* the component after mount: a fresh state, nothing running
SimInit ==
  /\ \E r \in SimDraws :
       physicsState = getInitialState(r[1], r[2], r[3], r[4])
  /\ history = <<>>
  /\ currentAction = RIGHT
  /\ lastArrowKey = "none"
  /\ frames = {}
  /\ isRunning = FALSE
  /\ score = 0
  /\ highScore = 0
  /\ terminationMsg = NoMsg
  /\ appConfig = DEFAULT_CONFIG
  /\ appHistory = <<>>
  /\ appHistoryShared = FALSE
  /\ episodeConfigs = {}

\* no sequence of library calls is being followed
StepIdle ==
  /\ hConfig = DEFAULT_CONFIG
  /\ hStart = ZeroState
  /\ hState = ZeroState
  /\ hInput = ZeroState
  /\ hActions = <<>>
  /\ hMirror = ZeroState
  /\ hAlt = ZeroState
  /\ hArgs = updatePhysicsWrites(ZeroState, RIGHT, DEFAULT_CONFIG)
  /\ hDraws = <<>>

Init == SimInit /\ StepIdle

Next ==
  \/ ClickResume /\ UNCHANGED hvars
  \/ handlePause /\ UNCHANGED hvars
  \/ handleReset /\ UNCHANGED hvars
  \/ (\E key \in {"ArrowLeft", "ArrowRight"} : handleKeyDown(key))
       /\ UNCHANGED hvars
  \/ handleOtherKey /\ UNCHANGED hvars
  \/ (\E c \in SimConfigs : handleConfigChange(c)) /\ UNCHANGED hvars
  \/ (\E f \in frames : tick(f)) /\ UNCHANGED hvars

Spec == Init /\ [][Next]_vars

(***************************************************************************)
(* Episodes left to run: the config stays as it is, the user starts and    *)
(* steers with the arrow keys and clicks neither Pause nor Reset.          *)
(***************************************************************************)
\* DEFAULT_CONFIG with a step budget the model follows to its end
BudgetConfig == [DEFAULT_CONFIG EXCEPT !.maxSteps = MaxTicks]

EpisodeConfigs == {TightConfig, BudgetConfig}

EpisodeInit ==
  /\ \E r \in SimDraws :
       physicsState = getInitialState(r[1], r[2], r[3], r[4])
  /\ history = <<>>
  /\ currentAction = RIGHT
  /\ lastArrowKey = "none"
  /\ frames = {}
  /\ isRunning = FALSE
  /\ score = 0
  /\ highScore = 0
  /\ terminationMsg = NoMsg
  /\ appConfig \in EpisodeConfigs
  /\ appHistory = <<>>
  /\ appHistoryShared = FALSE
  /\ episodeConfigs = {}
  /\ StepIdle

\* the browser runs a requested animation frame
RunFrame == (\E f \in frames : tick(f)) /\ UNCHANGED hvars

EpisodeNext ==
  \/ (\E key \in {"ArrowLeft", "ArrowRight"} : handleKeyDown(key))
       /\ UNCHANGED hvars
  \/ handleOtherKey /\ UNCHANGED hvars
  \/ RunFrame

EpisodeSpec == EpisodeInit /\ [][EpisodeNext]_vars

(***************************************************************************)
(* Calling the stepper: the inputs                                         *)
(***************************************************************************)
\* the longest sequence of calls threaded on one state
MaxCalls == 6

\* the config of the end-to-end scenario: DEFAULT_CONFIG's physics with
\* tau 0.02 and maxSteps 5
ScenarioConfig ==
  SimulationConfig(9800, 1000, 100, 1000, 10000, 20, 5, 2400, 24000)

StepConfigs == {DEFAULT_CONFIG, ScenarioConfig}

\* values of Math.random() the sequences start from
StepDraws == {0, 999}

\* running states near the thresholds of StepConfigs (x threshold 2.4,
\* theta threshold 0.418), at several step counts
ProbeStates ==
  { SimulationState(x, xDot, theta, thetaDot, FALSE, n, "running") :
      x \in {2390}, xDot \in {500, 1000},
      theta \in {408, 418}, thetaDot \in {50, 500, 1000}, n \in {0, 4} }
  \cup
  { SimulationState(0, 0, theta, 50, FALSE, n, "running") :
      theta \in {418}, n \in {0, 4, 997} }

StepStates ==
  {ZeroState}
  \cup { getInitialState(r1, r2, r3, r4) :
           r1 \in StepDraws, r2 \in StepDraws, r3 \in StepDraws, r4 \in StepDraws }
  \cup ProbeStates
  \cup { [s EXCEPT !.x = -s.x, !.xDot = -s.xDot, !.theta = -s.theta,
                   !.thetaDot = -s.thetaDot] : s \in ProbeStates }

\* the state with x, xDot, theta and thetaDot negated
Negated(s) ==
  [s EXCEPT !.x = -s.x, !.xDot = -s.xDot, !.theta = -s.theta,
            !.thetaDot = -s.thetaDot]

Opposite(a) == IF a = RIGHT THEN LEFT ELSE RIGHT

\* another valid config with the same tau, thresholds and step budget
OtherPhysics(c) ==
  [c EXCEPT !.gravity = c.gravity + 1500, !.cartMass = c.cartMass + 500,
            !.poleMass = c.poleMass + 150, !.forceMag = c.forceMag + 5000]

\* the component as mounted: it takes no part in the calls
SimIdle ==
  /\ physicsState = getInitialState(500, 500, 500, 500)
  /\ history = <<>>
  /\ currentAction = RIGHT
  /\ lastArrowKey = "none"
  /\ frames = {}
  /\ isRunning = FALSE
  /\ score = 0
  /\ highScore = 0
  /\ terminationMsg = NoMsg
  /\ appConfig = DEFAULT_CONFIG
  /\ appHistory = <<>>
  /\ appHistoryShared = FALSE
  /\ episodeConfigs = {}

StepInit ==
  /\ SimIdle
  /\ hConfig \in StepConfigs
  /\ hStart \in StepStates
  /\ hState = hStart
  /\ hInput = hStart
  /\ hActions = <<>>
  /\ hMirror = Negated(hStart)
  /\ hAlt = hStart
  /\ hArgs = [state |-> hStart, config |-> hConfig, returnsArgument |-> FALSE]
  /\ hDraws = <<>>

\* one more call on the state the last call returned
Step(a) ==
  /\ Len(hActions) < MaxCalls
  /\ hInput' = hState
  /\ hState' = updatePhysics(hState, a, hConfig)
  /\ hMirror' = updatePhysics(hMirror, Opposite(a), hConfig)
  /\ hAlt' = updatePhysics(hState, Opposite(a), OtherPhysics(hConfig))
  /\ hActions' = Append(hActions, a)
  /\ hArgs' = updatePhysicsWrites(hState, a, hConfig)
  /\ UNCHANGED <<hConfig, hStart, hDraws>>
  /\ UNCHANGED cvars

StepNext == \E a \in Action : Step(a)

StepSpec == StepInit /\ [][StepNext]_vars

(***************************************************************************)
(* Calling the stepper with any config, degenerate ones included           *)
(***************************************************************************)
\* the scenario's config with no mass at all, and with masses that cancel
ZeroMassConfig == [ScenarioConfig EXCEPT !.cartMass = 0, !.poleMass = 0]
CancellingMassConfig ==
  [ScenarioConfig EXCEPT !.cartMass = -100, !.poleMass = 100]

DegenerateConfigs == {ZeroMassConfig, CancellingMassConfig}

AnyConfigInit ==
  /\ SimIdle
  /\ hConfig \in StepConfigs \cup DegenerateConfigs
  /\ hStart \in StepStates
  /\ hState = hStart
  /\ hInput = hStart
  /\ hActions = <<>>
  /\ hMirror = Negated(hStart)
  /\ hAlt = hStart
  /\ hArgs = [state |-> hStart, config |-> hConfig, returnsArgument |-> FALSE]
  /\ hDraws = <<>>

AnyConfigSpec == AnyConfigInit /\ [][StepNext]_vars

(***************************************************************************)
(* Calling the initializer                                                 *)
(***************************************************************************)
\* the values of Math.random() on the grid: 0 <= r < 1
RandomValues == 0..(Scale - 1)

\* the four draws of one call: each of the four runs through every value
\* of RandomValues, and the four differ from each other
InitDraws ==
  { <<a, Scale - 1 - a, (a + Scale \div 2) % Scale, (7 * a) % Scale>> :
      a \in RandomValues }

\* one call of getInitialState, Math.random() returning r[1], .., r[4]
Initialize(r) ==
  /\ hDraws' = r
  /\ hStart' = getInitialState(r[1], r[2], r[3], r[4])
  /\ UNCHANGED <<hConfig, hState, hInput, hActions, hMirror, hAlt, hArgs>>
  /\ UNCHANGED cvars

InitializeInit == SimIdle /\ StepIdle

InitializeNext == \E r \in InitDraws : Initialize(r)

InitializeSpec == InitializeInit /\ [][InitializeNext]_vars

\* C12: every call of getInitialState, for every value of the random source
\* in [0, 1), returns steps = 0, done = false, terminatedCode = running and
\* each of x, xDot, theta, thetaDot within [-0.05, 0.05], each made from its
\* own draw: x from the first, xDot from the second, theta from the third,
\* thetaDot from the fourth.
C12_InitialStateInRange ==
  hDraws # <<>> =>
    /\ hStart.steps = 0 /\ ~hStart.done /\ hStart.terminatedCode = "running"
    /\ \A v \in {hStart.x, hStart.xDot, hStart.theta, hStart.thetaDot} :
         -50 <= v /\ v <= 50
    /\ hStart.x = FMul(hDraws[1], 100) - 50
    /\ hStart.xDot = FMul(hDraws[2], 100) - 50
    /\ hStart.theta = FMul(hDraws[3], 100) - 50
    /\ hStart.thetaDot = FMul(hDraws[4], 100) - 50

\* the call whose first draw is 0 and second draw the largest value below 1:
\* x at the lower end of the interval, xDot at the upper end of what a draw
\* reaches, theta and thetaDot made from their own draws
C12_Witness ==
  /\ hDraws # <<>>
  /\ hDraws[1] = 0 /\ hStart.x = -50
  /\ hDraws[2] = Scale - 1 /\ hStart.xDot = 49
  /\ hStart.theta # hStart.thetaDot /\ hStart.theta # hStart.x

(***************************************************************************)
(* Properties of the stepper                                               *)
(***************************************************************************)
\* a call has been made: hState is what updatePhysics returned for hInput
Called == Len(hActions) > 0

\* the angle threshold in radians, from the config's degrees
RadOf(c) == FDiv(FMul(c.thetaThresholdDegrees, PI), Lit(180))

XBeyond(s, c) == Lt(s.x, FNeg(c.xThreshold)) \/ Gt(s.x, c.xThreshold)
ThetaBeyond(s, c) == Lt(s.theta, FNeg(RadOf(c))) \/ Gt(s.theta, RadOf(c))

\* C1: the termination code of a returned state is the first match, on the
\* returned x, theta and steps, of: x beyond the track -> out_of_bounds;
\* theta beyond the angle -> pole_fell; steps >= maxSteps -> max_steps;
\* otherwise running with done = false.
C1_TerminationPriority ==
  Called =>
    /\ XBeyond(hState, hConfig)
         => hState.done /\ hState.terminatedCode = "out_of_bounds"
    /\ ~XBeyond(hState, hConfig) /\ ThetaBeyond(hState, hConfig)
         => hState.done /\ hState.terminatedCode = "pole_fell"
    /\ ~XBeyond(hState, hConfig) /\ ~ThetaBeyond(hState, hConfig)
          /\ hState.steps >= hConfig.maxSteps
         => hState.done /\ hState.terminatedCode = "max_steps"
    /\ ~XBeyond(hState, hConfig) /\ ~ThetaBeyond(hState, hConfig)
          /\ hState.steps < hConfig.maxSteps
         => ~hState.done /\ hState.terminatedCode = "running"

\* position and angle both beyond their thresholds after one call: the
\* position check wins
C1_Witness ==
  /\ Called
  /\ XBeyond(hState, hConfig) /\ ThetaBeyond(hState, hConfig)
  /\ ~XBeyond(hInput, hConfig) /\ ~ThetaBeyond(hInput, hConfig)
  /\ hState.terminatedCode = "out_of_bounds"

\* C2: every call returns steps = state.steps + 1, whether the state
\* passed was done or not, so along a threaded sequence the counter is the
\* start's counter plus the number of calls.
C2_StepsPlusOne ==
  Called =>
    /\ hState.steps = hInput.steps + 1
    /\ hState.steps = hStart.steps + Len(hActions)

\* a call made on a state that was already done
C2_Witness ==
  Called /\ hInput.done /\ hState.steps = hInput.steps + 1

\* C3: in every state produced by getInitialState or returned by
\* updatePhysics, done is true exactly when terminatedCode is not running.
C3_DoneIffNotRunning ==
  hState.done <=> hState.terminatedCode # "running"

\* a returned state that ended on the step budget alone
C3_Witness ==
  Called /\ hState.done /\ hState.terminatedCode = "max_steps"

\* C6: the threshold comparisons are strict: a returned theta equal to
\* +/- the threshold is not pole_fell, a returned x equal to +/- xThreshold is
\* not out_of_bounds, and one grid unit beyond gives the code (position
\* first).
C6_StrictThresholds ==
  Called =>
    /\ hState.theta \in {RadOf(hConfig), -RadOf(hConfig)}
         => hState.terminatedCode # "pole_fell"
    /\ hState.x \in {hConfig.xThreshold, -hConfig.xThreshold}
         => hState.terminatedCode # "out_of_bounds"
    /\ hState.x \in {hConfig.xThreshold + 1, -hConfig.xThreshold - 1}
         => hState.terminatedCode = "out_of_bounds"
    /\ hState.theta \in {RadOf(hConfig) + 1, -RadOf(hConfig) - 1}
          /\ ~XBeyond(hState, hConfig)
         => hState.terminatedCode = "pole_fell"

\* a call that lands exactly on both thresholds and keeps running
C6_Witness ==
  /\ Called
  /\ hState.theta = RadOf(hConfig)
  /\ hState.x = hConfig.xThreshold
  /\ hInput.theta < hState.theta /\ hInput.x < hState.x
  /\ hState.terminatedCode = "running"

\* C7: positions integrate the velocities passed in: x = state.x + tau *
\* state.xDot and theta = state.theta + tau * state.thetaDot, so x, theta and
\* the code are the same under the other action and other gravity, masses
\* and force magnitude; only xDot and thetaDot differ.
C7_PreUpdateVelocities ==
  Called =>
    /\ hState.x = hInput.x + FMul(hConfig.tau, hInput.xDot)
    /\ hState.theta = hInput.theta + FMul(hConfig.tau, hInput.thetaDot)
    /\ hAlt.x = hState.x /\ hAlt.theta = hState.theta
    /\ hAlt.terminatedCode = hState.terminatedCode /\ hAlt.done = hState.done

\* a call that moved x and theta and whose velocities depend on the action
C7_Witness ==
  /\ Called
  /\ hState.x # hInput.x /\ hState.theta # hInput.theta
  /\ hState.xDot # hInput.xDot /\ hState.thetaDot # hInput.thetaDot
  /\ hAlt.xDot # hState.xDot /\ hAlt.thetaDot # hState.thetaDot

\* the end-to-end scenario: its config, the all-zero start, RIGHT only
ScenarioRun ==
  /\ hConfig = ScenarioConfig
  /\ hStart = ZeroState
  /\ \A i \in 1..Len(hActions) : hActions[i] = RIGHT

\* C8 as stated: five RIGHT calls give steps 5, done, max_steps, with x
\* strictly larger after each of the five calls than before it.
C8_AsStated ==
  ScenarioRun /\ Called /\ Len(hActions) <= 5 =>
    /\ hState.x > hInput.x
    /\ Len(hActions) = 5
         => hState.steps = 5 /\ hState.done
              /\ hState.terminatedCode = "max_steps"

\* C8, amended: five RIGHT calls give steps 5, done, max_steps (and running
\* before the fifth); the first call leaves x at 0, because the position
\* integrates the velocity passed in, which is 0, and each of the calls
\* 2..5 makes x strictly larger.
C8_Scenario ==
  ScenarioRun /\ Called /\ Len(hActions) <= 5 =>
    /\ Len(hActions) = 1 => hState.x = 0 /\ hInput.x = 0 /\ hState.xDot > 0
    /\ Len(hActions) > 1 => hState.x > hInput.x
    /\ Len(hActions) < 5
         => ~hState.done /\ hState.terminatedCode = "running"
    /\ Len(hActions) = 5
         => hState.steps = 5 /\ hState.done
              /\ hState.terminatedCode = "max_steps"

\* the scenario after its fifth call
C8_Witness ==
  ScenarioRun /\ Len(hActions) = 5 /\ hState.steps = 5 /\ hState.x > 0

\* C9: stepping the negated state under the opposite action returns the
\* negation of x, xDot, theta and thetaDot, with the same steps, done and
\* terminatedCode.
C9_MirrorSymmetry ==
  /\ hMirror.x = -hState.x /\ hMirror.xDot = -hState.xDot
  /\ hMirror.theta = -hState.theta /\ hMirror.thetaDot = -hState.thetaDot
  /\ hMirror.steps = hState.steps /\ hMirror.done = hState.done
  /\ hMirror.terminatedCode = hState.terminatedCode

\* the five-call RIGHT run from the all-zero state and its LEFT mirror
C9_Witness ==
  /\ ScenarioRun /\ Len(hActions) = 5
  /\ hState.x > 0 /\ hMirror.x = -hState.x
  /\ hState.theta < 0 /\ hMirror.theta = -hState.theta

\* C4 as stated: along a threaded sequence of calls with one config, once a
\* returned state has a code other than running, every later returned state
\* has that same code.
C4_AsStated ==
  [][hState.terminatedCode # "running"
       => hState'.terminatedCode = hState.terminatedCode]_vars

\* C4, amended: updatePhysics derives the code anew on every call, so a call
\* on a terminated state may return another code, or running again.  What
\* persists along a threaded sequence with one config is the step budget:
\* once a returned state has steps >= maxSteps (so once the code is
\* max_steps), every later returned state is done with a code other than
\* running.
C4_BudgetAbsorbing ==
  [][hState.steps >= hConfig.maxSteps
       => hState'.done /\ hState'.terminatedCode # "running"]_vars

\* a call on a state that ended on the step budget returns out_of_bounds
C4_Witness ==
  /\ Called
  /\ hInput.terminatedCode = "max_steps"
  /\ hInput.steps >= hConfig.maxSteps
  /\ hState.terminatedCode = "out_of_bounds"

\* C16: updatePhysics is total and signals no failure: for every state,
\* action and config, a config with cartMass + poleMass = 0 included, it
\* returns a state with steps = state.steps + 1 and one of the four codes,
\* chosen by the priority rule on the returned x, theta and steps (the
\* comparisons being those of the program, false of NaN), with done set
\* exactly when the code is not running.
C16_TotalNoFailure ==
  Called =>
    /\ hState.steps = hInput.steps + 1
    /\ hState.done <=> hState.terminatedCode # "running"
    /\ hState.terminatedCode =
         IF XBeyond(hState, hConfig) THEN "out_of_bounds"
         ELSE IF ThetaBeyond(hState, hConfig) THEN "pole_fell"
         ELSE IF hState.steps >= hConfig.maxSteps THEN "max_steps"
         ELSE "running"
    /\ \A v \in {hState.x, hState.xDot, hState.theta, hState.thetaDot} :
         IsFinite(v) \/ v \in {Infinity, -Infinity, NaN}

\* calls with no mass: the velocities are NaN after the first call, the
\* positions after the second, and the code is still chosen by the rule,
\* here the step budget
C16_Witness ==
  /\ Called
  /\ FAdd(hConfig.cartMass, hConfig.poleMass) = 0
  /\ hInput.xDot = NaN /\ hInput.thetaDot = NaN
  /\ hState.x = NaN /\ hState.theta = NaN
  /\ hState.steps = hInput.steps + 1
  /\ hState.terminatedCode = "max_steps"

C15_PublishedOnTermination ==
  /\ [][appHistory' # appHistory
         => /\ ~physicsState.done /\ physicsState'.done
            /\ history' = Append(history, history'[Len(history')])
            /\ appHistory' = history'
            /\ Len(appHistory') = physicsState'.steps]_vars
  /\ [][~physicsState.done /\ physicsState'.done
         => appHistory' = history' /\ appHistoryShared']_vars
  /\ [](\A i \in 1..Len(appHistory) : appHistory[i].step = i)
  /\ [](physicsState.done => appHistory = history)

\* a later episode being stepped while the App holds the history of the
\* last terminated one
C15_Witness ==
  /\ Len(appHistory) > 1
  /\ isRunning /\ ~physicsState.done
  /\ Len(history) > 0 /\ history # appHistory
  /\ history[1] # appHistory[1]

\* C17: while the simulation is not running no tick advances the physics
\* state: no requested frame is left once it stops, no step taken while it
\* is stopped appends to the history, and from a Pause or Reset click until
\* the next start the state, the history and the score stay as the click
\* left them (Pause: as they were; Reset: steps 0, empty history, score 0),
\* unless Reset is clicked again.
C17_NoTickWhileStopped ==
  /\ [](~isRunning => frames = {})
  /\ [][~isRunning => Len(history') # Len(history) + 1]_vars
  /\ [][~isRunning' /\ Len(history') # Len(history) + 1
         => \/ /\ physicsState' = physicsState
               /\ history' = history /\ score' = score
            \/ /\ physicsState'.steps = 0 /\ ~physicsState'.done
               /\ history' = <<>> /\ score' = 0]_vars

\* paused in the middle of an episode, the requested frame cancelled
C17_Witness ==
  /\ ~isRunning /\ frames = {}
  /\ ~physicsState.done /\ physicsState.steps > 0
  /\ score = physicsState.steps /\ terminationMsg = NoMsg

\* C18: at most one animation-frame callback of the game loop is pending at
\* any time, under any sequence of start, pause, reset, key presses and
\* config changes, and it is the one requestRef holds.
C18_OneFramePending ==
  /\ Cardinality(frames) <= 1
  /\ \A f \in frames : f.current

\* running after a config change made in the middle of an episode: the
\* frame of the old tick was cancelled, the one pending runs the new tick
C18_Witness ==
  /\ isRunning /\ physicsState.steps > 0
  /\ appConfig = TightConfig /\ DEFAULT_CONFIG \in episodeConfigs
  /\ Cardinality(frames) = 1
  /\ \A f \in frames : f.callback.config = TightConfig

\* C19: the length of the recorded history always equals the steps of the
\* current physics state, after every tick, start, resume, pause and reset;
\* the i-th entry has step = i and holds the x and theta of the state the
\* i-th updatePhysics call of the episode returned: a tick appends the entry
\* of the state it stored, and earlier entries stay.
C19_HistoryMatchesSteps ==
  /\ [](Len(history) = physicsState.steps)
  /\ [](\A i \in 1..Len(history) : history[i].step = i)
  /\ [](history # <<>>
          => /\ history[Len(history)].x = physicsState.x
             /\ history[Len(history)].theta = physicsState.theta)
  /\ [][history' # history
         => \/ history' = <<>>
            \/ /\ Len(history') = Len(history) + 1
               /\ \A i \in 1..Len(history) : history'[i] = history[i]
               /\ physicsState' # physicsState]_vars

\* an episode resumed after a pause and stepped again: entries of several
\* steps, the last one of the current state
C19_Witness ==
  /\ isRunning /\ Len(history) >= 2
  /\ physicsState.steps = Len(history)
  /\ history[Len(history)].step = physicsState.steps
  /\ history[1].theta # history[Len(history)].theta
  /\ history[Len(history)].theta = physicsState.theta

\* C20: no operation produces the code manual_stop: every state has one of
\* running, pole_fell, out_of_bounds, max_steps; a simulation stopped with no
\* message shown (paused, reset, not yet started) has the code running and
\* done = false, and so has the state a Pause or Reset click leaves; the
\* message shown is never the default "Game Over".
C20_NoManualStop ==
  /\ [](physicsState.terminatedCode
          \in {"running", "pole_fell", "out_of_bounds", "max_steps"})
  /\ [](terminationMsg # "Game Over")
  /\ [](terminationMsg = NoMsg
          => physicsState.terminatedCode = "running" /\ ~physicsState.done)
  /\ [][~isRunning' /\ Len(history') # Len(history) + 1
         => \/ /\ physicsState'.terminatedCode = "running"
               /\ ~physicsState'.done
            \/ physicsState' = physicsState]_vars

\* paused in an episode that follows a terminated one: a message was shown
\* for the earlier episode, the paused state is running and not done
C20_Witness ==
  /\ ~isRunning /\ highScore > 0
  /\ terminationMsg = NoMsg
  /\ physicsState.steps > 0
  /\ physicsState.terminatedCode = "running" /\ ~physicsState.done

\* C21: handleStart resumes or restarts depending on done.  A step that
\* sets running from not running (only handleStart does) leaves the physics
\* state, the history, the score and the termination message unchanged when
\* the state is not done; when it is done, the state becomes a fresh
\* getInitialState() result, the history empty, the score 0 and the message
\* null.
C21_ResumeOrRestart ==
  [][~isRunning /\ isRunning'
       => IF physicsState.done
            THEN /\ physicsState' \in
                      {getInitialState(r[1], r[2], r[3], r[4]) : r \in SimDraws}
                 /\ history' = <<>>
                 /\ score' = 0
                 /\ terminationMsg' = NoMsg
            ELSE /\ physicsState' = physicsState
                 /\ history' = history
                 /\ score' = score
                 /\ terminationMsg' = terminationMsg]_vars

\* restarted after a terminated episode and not yet stepped: the App still
\* holds the history of that episode, the state is fresh, a frame is
\* requested
C21_Witness ==
  /\ isRunning /\ frames # {}
  /\ appHistory # <<>> /\ highScore > 0
  /\ physicsState.steps = 0 /\ ~physicsState.done
  /\ history = <<>> /\ score = 0 /\ terminationMsg = NoMsg

\* C22: the termination message is non-null exactly when the current
\* physics state is done: it is set on the tick that returns a done state,
\* with the text of the state's code, and every operation that replaces the
\* state (restart after done, Reset) clears it.
C22_MessageIffDone ==
  /\ [](terminationMsg # NoMsg <=> physicsState.done)
  /\ [](physicsState.terminatedCode = "pole_fell"
          => terminationMsg = "Failed: Pole tilted too far!")
  /\ [](physicsState.terminatedCode = "out_of_bounds"
          => terminationMsg = "Failed: Cart went off track!")
  /\ [](physicsState.terminatedCode = "max_steps"
          => terminationMsg = "Success: Maximum steps reached!")
  /\ [][terminationMsg = NoMsg /\ terminationMsg' # NoMsg
         => Len(history') = Len(history) + 1 /\ physicsState'.done]_vars
  /\ [][terminationMsg # NoMsg /\ physicsState' # physicsState
         => terminationMsg' = NoMsg /\ physicsState'.steps = 0]_vars

\* Reset clicked on a terminated episode: the App holds that episode's
\* history, nothing runs, and the message is gone with the done state
C22_Witness ==
  /\ ~isRunning /\ appHistory # <<>> /\ highScore > 0
  /\ physicsState.steps = 0 /\ ~physicsState.done
  /\ terminationMsg = NoMsg

\* C23: the high score never decreases and is the maximum final step count
\* over all terminated episodes since mount (0 if none), whatever the
\* termination reason: the step on which an episode terminates makes it the
\* larger of its old value and the episode's final steps, and no other step
\* (Reset, Pause, restart, resume, keys, config changes, other ticks)
\* changes it.
C23_HighScoreIsMaximum ==
  /\ [][highScore' >= highScore]_vars
  /\ [][~physicsState.done /\ physicsState'.done
         => /\ highScore' >= physicsState'.steps
            /\ highScore' \in {highScore, physicsState'.steps}]_vars
  /\ [][~(~physicsState.done /\ physicsState'.done)
         => highScore' = highScore]_vars
  /\ [](physicsState.done => highScore >= physicsState.steps)

\* an episode that terminated below the high score of an earlier one
C23_Witness ==
  /\ physicsState.done /\ ~isRunning
  /\ physicsState.steps > 0
  /\ highScore > physicsState.steps

\* C24: the action a tick applies is the one selected by the most recent
\* ArrowLeft / ArrowRight key press (RIGHT if none since mount), across
\* pause, reset and new episodes: the selected action is LEFT exactly when
\* the last arrow key was ArrowLeft; a tick that steps pushes the cart the
\* selected way (xDot grows under RIGHT, falls under LEFT) and records -1
\* for LEFT and 1 for RIGHT; only a key press changes the selection, and an
\* arrow key pressed while not running leaves the simulation running.
C24_ActionFollowsArrowKeys ==
  /\ [](currentAction = IF lastArrowKey = "ArrowLeft" THEN LEFT ELSE RIGHT)
  /\ [][Len(history') = Len(history) + 1
         => /\ currentAction' = currentAction
            /\ currentAction = LEFT
                 => /\ history'[Len(history')].action = -1
                    /\ physicsState'.xDot < physicsState.xDot
            /\ currentAction = RIGHT
                 => /\ history'[Len(history')].action = 1
                    /\ physicsState'.xDot > physicsState.xDot]_vars
  /\ [][lastArrowKey' # lastArrowKey
         => /\ isRunning'
            /\ Len(history') # Len(history) + 1
            /\ isRunning => physicsState' = physicsState]_vars
  /\ [](\A i \in 1..Len(history) : history[i].action \in {-1, 1})

\* a later episode steered first left, then right
C24_Witness ==
  /\ highScore > 0 /\ isRunning
  /\ Len(history) >= 2
  /\ history[1].action = -1 /\ history[2].action = 1
  /\ lastArrowKey = "ArrowRight" /\ currentAction = RIGHT

\* C14: the config is immutable per episode: between the initialization of
\* a physics state and the episode's termination or reset, every
\* updatePhysics call the component makes on that episode receives the same
\* config values.
C14_AsStated == Cardinality(episodeConfigs) <= 1

\* C13: every episode ends, with a fixed config and frames that keep being
\* run while the simulation is running, after at most maxSteps steps: a
\* state that is not done has steps < maxSteps and no state has more; while
\* the simulation is running the state is not done and exactly one frame is
\* requested, whose tick will step; running it adds one to steps; and
\* while running nothing else changes the state, cancels the frame or stops
\* the simulation.
C13_EpisodeEnds ==
  /\ [](physicsState.steps <= appConfig.maxSteps)
  /\ [](~physicsState.done => physicsState.steps < appConfig.maxSteps)
  /\ [](isRunning => /\ ~physicsState.done
                     /\ Cardinality(frames) = 1
                     /\ \A f \in frames : f.callback.isRunning)
  /\ [][isRunning
         => \/ /\ Len(history') = Len(history) + 1
               /\ physicsState'.steps = physicsState.steps + 1
            \/ /\ isRunning' /\ frames' = frames
               /\ physicsState' = physicsState /\ history' = history]_vars
  /\ [][appConfig' = appConfig]_vars

\* an episode that ran to the end of its step budget
C13_Witness ==
  /\ physicsState.done /\ ~isRunning
  /\ physicsState.terminatedCode = "max_steps"
  /\ physicsState.steps = appConfig.maxSteps
  /\ Len(history) = appConfig.maxSteps

\* C5: the component never passes a done state to updatePhysics: no frame
\* that would step is pending while the state is done, every tick that
\* steps (the only operation that appends to the history) starts from a
\* state that is not done, and starting again from a done state replaces it
\* with a fresh state and an empty history.
C5_NeverStepsDoneState ==
  /\ [](physicsState.done
          => ~isRunning /\ \A f \in frames : ~f.callback.isRunning)
  /\ [][Len(history') = Len(history) + 1 => ~physicsState.done]_vars
  /\ [][physicsState.done /\ isRunning'
         => /\ physicsState'.steps = 0 /\ ~physicsState'.done
            /\ physicsState'.terminatedCode = "running"
            /\ history' = <<>>]_vars

\* a later episode being stepped: an episode has terminated (it set the
\* high score), handleStart replaced the state, and a tick has run on it
C5_Witness ==
  /\ highScore > 0
  /\ isRunning /\ frames # {}
  /\ Len(history) > 0 /\ physicsState.steps = Len(history)
  /\ ~physicsState.done

=============================================================================
